---- MODULE Spec2Model ----
(***************************************************************************)
(* Model of covreport's rule matching (src/src/cov.ts): the glob matcher   *)
(* wrapper, checkMatch, checkPattern and the pull-request loop of run.     *)
(* The file holds two copies of the action; the model follows the first    *)
(* (lines 1-260), the only one whose run calls checkPattern. The second    *)
(* copy's run (lines 418-463) stops after the empty-changes check.         *)
(***************************************************************************)
EXTENDS Integers, Sequences, FiniteSets, TLC

(* ------------------------------ bounds -------------------------------- *)
MaxFiles == 2
MaxPats == 2
MaxConds == 2
MaxPRs == 3

(* ------------------------- paths and patterns ------------------------- *)
\* A path is its sequence of segments; a glob string is its sequence of
\* segment tokens, with "!" as a leading negation marker.
FileA == <<"src", "a.ts">>
FileB == <<"src", "readme.md">>
FileC == <<"docs", "readme.md">>
Files == {FileA, FileB, FileC}

PatSrc == <<"src", "**">>
PatReadme == <<"*", "readme.md">>
PatNotSrc == <<"!", "src", "**">>
Patterns == {PatSrc, PatReadme, PatNotSrc}

RECURSIVE SeqsUpTo(_, _)
SeqsUpTo(S, n) ==
    IF n = 0 THEN {<<>>}
    ELSE LET shorter == SeqsUpTo(S, n - 1)
         IN  shorter \cup {Append(s, x) : s \in {t \in shorter : Len(t) = n - 1}, x \in S}

Range(s) == {s[n] : n \in 1..Len(s)}

(* --------------------------- Minimatch -------------------------------- *)
\* new Minimatch(config): every leading "!" toggles the negate flag and is
\* stripped from the pattern.
RECURSIVE parseNegate(_, _)
parseNegate(config, negate) ==
    IF config # <<>> /\ Head(config) = "!"
    THEN parseNegate(Tail(config), ~negate)
    ELSE [negate |-> negate, pattern |-> config]

Minimatch(config) == parseNegate(config, FALSE)

\* Segment-wise match: "*" is one segment, "**" any run of segments (a
\* trailing "**" needs at least one segment left).
RECURSIVE matchOne(_, _)
matchOne(file, pattern) ==
    IF pattern = <<>> THEN file = <<>>
    ELSE IF file = <<>> THEN FALSE
    ELSE IF Head(pattern) = "**"
         THEN IF Len(pattern) = 1 THEN TRUE
              ELSE \E fr \in 1..Len(file) :
                      matchOne(SubSeq(file, fr, Len(file)), Tail(pattern))
    ELSE /\ (Head(pattern) = "*" \/ Head(pattern) = Head(file))
         /\ matchOne(Tail(file), Tail(pattern))

\* matcher.match(file)
match(matcher, file) ==
    IF matchOne(file, matcher.pattern) THEN ~matcher.negate ELSE matcher.negate

(* ----------------------- configuration values ------------------------- *)
\* A value of the loaded YAML document, tagged with its JavaScript shape.
Undefined == [t |-> "undefined"]
Str(s) == [t |-> "string", v |-> s]
Arr(items) == [t |-> "array", v |-> items]
MatchConfig(all, any) == [t |-> "object", all |-> all, any |-> any]

\* matchConfig.all / matchConfig.any: a string or an array has no such
\* property.
GetAll(value) == IF value.t = "object" THEN value.all ELSE Undefined
GetAny(value) == IF value.t = "object" THEN value.any ELSE Undefined

\* for (const config of configs): an array yields its elements, a string
\* its characters, anything else is not iterable.
Iterable(value) == value.t \in {"array", "string"}
Iterate(value) ==
    IF value.t = "array" THEN value.v
    ELSE IF value.t = "string" THEN [n \in 1..Len(value.v) |-> Str(<<value.v[n]>>)]
    ELSE <<>>

(* ---------------------------- checkMatch ------------------------------ *)
Matchers(clause) == [n \in 1..Len(clause.v) |-> Minimatch(clause.v[n])]

\* Variant: the all clause asks every changed file to match every pattern.
checkMatchEveryFile(changedFiles, matchConfig) ==
    IF GetAll(matchConfig) # Undefined
    THEN \A m \in 1..Len(changedFiles) :
             \A n \in 1..Len(GetAll(matchConfig).v) :
                 match(Matchers(GetAll(matchConfig))[n], changedFiles[m])
    ELSE IF GetAny(matchConfig) # Undefined
    THEN \E n \in 1..Len(GetAny(matchConfig).v) :
             \E m \in 1..Len(changedFiles) :
                 match(Matchers(GetAny(matchConfig))[n], changedFiles[m])
    ELSE TRUE

\* Variant: the any clause asks every pattern to be matched (every for some).
checkMatchAnyEvery(changedFiles, matchConfig) ==
    IF GetAll(matchConfig) # Undefined
    THEN \A n \in 1..Len(GetAll(matchConfig).v) :
             \E m \in 1..Len(changedFiles) :
                 match(Matchers(GetAll(matchConfig))[n], changedFiles[m])
    ELSE IF GetAny(matchConfig) # Undefined
    THEN \A n \in 1..Len(GetAny(matchConfig).v) :
             \E m \in 1..Len(changedFiles) :
                 match(Matchers(GetAny(matchConfig))[n], changedFiles[m])
    ELSE TRUE

\* Variant: the any clause asks every changed file to match (every for some).
checkMatchAnyAllFiles(changedFiles, matchConfig) ==
    IF GetAll(matchConfig) # Undefined
    THEN \A n \in 1..Len(GetAll(matchConfig).v) :
             \E m \in 1..Len(changedFiles) :
                 match(Matchers(GetAll(matchConfig))[n], changedFiles[m])
    ELSE IF GetAny(matchConfig) # Undefined
    THEN \E n \in 1..Len(GetAny(matchConfig).v) :
             \A m \in 1..Len(changedFiles) :
                 match(Matchers(GetAny(matchConfig))[n], changedFiles[m])
    ELSE TRUE

checkMatch(changedFiles, matchConfig) ==
    IF GetAll(matchConfig) # Undefined
    THEN LET allMatcher == Matchers(GetAll(matchConfig))
         IN  \A n \in 1..Len(allMatcher) :
                 \E m \in 1..Len(changedFiles) : match(allMatcher[n], changedFiles[m])
    ELSE IF GetAny(matchConfig) # Undefined
    THEN LET anyMatcher == Matchers(GetAny(matchConfig))
         IN  \E n \in 1..Len(anyMatcher) :
                 \E m \in 1..Len(changedFiles) : match(anyMatcher[n], changedFiles[m])
    ELSE TRUE

(* --------------------------- checkPattern ----------------------------- *)
\* The loop over the conditions, returning true at the first that passes.
\* Variant: the loop returns the result of the condition it is at.
checkPatternFirstOnly(changedFiles, items, n) ==
    n <= Len(items) /\ checkMatch(changedFiles, items[n])

RECURSIVE checkPatternFrom(_, _, _)
checkPatternFrom(changedFiles, items, n) ==
    IF n > Len(items) THEN FALSE
    ELSE IF checkMatch(changedFiles, items[n]) THEN TRUE
    ELSE checkPatternFrom(changedFiles, items, n + 1)

checkPattern(changedFiles, configs) ==
    checkPatternFrom(changedFiles, Iterate(configs), 1)

\* Variant: a guard skips a label that has no matcher.
checkPatternNeverThrows(configs) == FALSE

\* for...of over a value that is not iterable throws a TypeError.
checkPatternThrows(configs) == ~Iterable(configs)

(* ------------------------------ state --------------------------------- *)
VARIABLES
    prNumbers,     \* getPrNumbers(): the pull requests to process
    testConfigs,   \* the loaded configuration document {matchers, commands}
    pc,            \* position of run()
    i,             \* index into prNumbers of the pull request being processed
    changedFiles,  \* changed files of the pull request being processed
    exeCommands,   \* the Set of commands, in insertion order
    k,             \* index of the label being checked, in key order of commands
    failed,        \* core.setFailed was called
    errors,        \* what core.error logged
    log,           \* per processed pull request: what happened and what was reported
    evFiles,       \* a direct call of checkPattern: its changedFiles
    evConfigs,     \*   its configs
    evMatch,       \*   checkMatch of each condition
    evResult,      \*   its return value
    evPc           \*   "off", "call" or "returned"

runVars == <<prNumbers, testConfigs, pc, i, changedFiles, exeCommands, k, failed,
             errors, log>>
evVars == <<evFiles, evConfigs, evMatch, evResult, evPc>>
vars == <<runVars, evVars>>

(* ------------------------------ inputs -------------------------------- *)
Labels == {"ts", "docs"}
Commands == {"run-ts-tests", "run-docs-tests"}

PatLists == SeqsUpTo(Patterns, MaxPats)
Clauses == {Undefined} \cup {Arr(ps) : ps \in PatLists}
MatchConfigs == {MatchConfig(all, any) : all \in Clauses, any \in Clauses}
FileLists == SeqsUpTo(Files, MaxFiles)

\* Conditions used to build the longer condition lists.
SomeConfigs ==
    { MatchConfig(Undefined, Undefined),
      MatchConfig(Arr(<<PatSrc>>), Undefined),
      MatchConfig(Undefined, Arr(<<PatReadme>>)),
      MatchConfig(Arr(<<PatNotSrc>>), Arr(<<PatSrc>>)) }
ConfigLists ==
    {Arr(<<c>>) : c \in MatchConfigs} \cup {Arr(cs) : cs \in SeqsUpTo(SomeConfigs, MaxConds)}

\* Matcher entries a configuration document may hold for a label: absent,
\* well-formed condition lists, and the two wrong shapes.
MatcherEntries ==
    { Undefined,
      Arr(<<>>),
      Arr(<<MatchConfig(Undefined, Undefined)>>),
      Arr(<<MatchConfig(Arr(<<PatSrc>>), Undefined)>>),
      Arr(<<MatchConfig(Undefined, Arr(<<PatReadme>>))>>),
      Arr(<<MatchConfig(Arr(<<PatSrc>>), Undefined), MatchConfig(Undefined, Arr(<<PatNotSrc>>))>>),
      Str(PatSrc),
      Arr(<<Str(PatSrc)>>) }

Entry(key, command) == [key |-> key, command |-> command]
CommandMaps ==
    {<<>>}
    \cup {<<Entry(l, c)>> : l \in Labels, c \in Commands}
    \cup {<<Entry("ts", c), Entry("docs", d)>> : c \in Commands, d \in Commands}
ConfigDocs ==
    {[matchers |-> m, commands |-> c] : m \in [Labels -> MatcherEntries], c \in CommandMaps}

\* Changed-file lists the pulls API may return.
ListedFiles == {<<>>, <<FileA>>, <<FileC>>, <<FileA, FileC>>}

(* ------------------------------- run ---------------------------------- *)
NoConfig == [matchers |-> [l \in Labels |-> Undefined], commands |-> <<>>]

Init ==
    /\ prNumbers \in {[n \in 1..len |-> n] : len \in 0..MaxPRs}
    /\ testConfigs = NoConfig
    /\ pc = "start"
    /\ i = 1
    /\ changedFiles = <<>>
    /\ exeCommands = <<>>
    /\ k = 1
    /\ failed = FALSE
    /\ errors = <<>>
    /\ log = <<>>
    /\ evFiles = <<>>
    /\ evConfigs = Undefined
    /\ evMatch = <<>>
    /\ evResult = FALSE
    /\ evPc = "off"

\* Variant: the Set is created once, outside the loop over pull requests.
NewSetOutsideLoop == exeCommands

\* Variant: an array push in place of Set.add.
SetAddPush(set, value) == Append(set, value)

\* new Set() and Set.add: insertion order, no duplicates.
NewSet == <<>>
SetAdd(set, value) == IF value \in Range(set) THEN set ELSE Append(set, value)

LogEntry(outcome, files, reported) ==
    [pr |-> prNumbers[i], outcome |-> outcome, files |-> files, reported |-> reported]

\* catch (error): core.error(error); core.setFailed(error.message)
Catch(error) ==
    /\ failed' = TRUE
    /\ errors' = Append(errors, error)
    /\ pc' = "done"

\* Variant: return in place of continue.
SkipReturns(outcome) ==
    /\ log' = Append(log, LogEntry(outcome, <<>>, <<>>))
    /\ i' = i + 1
    /\ pc' = "done"
    /\ UNCHANGED <<failed, errors>>

\* continue: on to the next pull request.
Skip(outcome) ==
    /\ log' = Append(log, LogEntry(outcome, <<>>, <<>>))
    /\ i' = i + 1
    /\ pc' = "pulls_get"
    /\ UNCHANGED <<failed, errors>>

\* No pull request number: warn and return.
Start ==
    /\ pc = "start"
    /\ pc' = IF Len(prNumbers) = 0 THEN "done" ELSE "config"
    /\ UNCHANGED <<prNumbers, testConfigs, i, changedFiles, exeCommands, k, failed,
                   errors, log, evVars>>

\* getTestConfig returns the parsed document as it is.
GetTestConfig ==
    /\ pc = "config"
    /\ \E doc \in ConfigDocs : testConfigs' = doc
    /\ pc' = "pulls_get"
    /\ UNCHANGED <<prNumbers, i, changedFiles, exeCommands, k, failed, errors, log,
                   evVars>>

\* getTestConfig rethrows when the file cannot be read or fetched.
GetTestConfigThrows ==
    /\ pc = "config"
    /\ Catch("HttpError")
    /\ UNCHANGED <<prNumbers, testConfigs, i, changedFiles, exeCommands, k, log, evVars>>

PullsGet ==
    /\ pc = "pulls_get"
    /\ i <= Len(prNumbers)
    /\ pc' = "list_files"
    /\ UNCHANGED <<prNumbers, testConfigs, i, changedFiles, exeCommands, k, failed,
                   errors, log, evVars>>

\* client.rest.pulls.get throws: warn and skip the pull request.
PullsGetThrows ==
    /\ pc = "pulls_get"
    /\ i <= Len(prNumbers)
    /\ Skip("not_found")
    /\ UNCHANGED <<prNumbers, testConfigs, changedFiles, exeCommands, k, evVars>>

\* getChangedFiles, then the empty check and the fresh Set.
GetChangedFiles ==
    /\ pc = "list_files"
    /\ \E files \in ListedFiles :
          /\ changedFiles' = files
          /\ IF Len(files) = 0
             THEN Skip("no_changes") /\ UNCHANGED <<exeCommands, k>>
             ELSE /\ exeCommands' = NewSet
                  /\ k' = 1
                  /\ pc' = "labels"
                  /\ UNCHANGED <<i, failed, errors, log>>
    /\ UNCHANGED <<prNumbers, testConfigs, evVars>>

\* client.paginate rejects: the error reaches run's catch.
GetChangedFilesThrows ==
    /\ pc = "list_files"
    /\ Catch("HttpError")
    /\ log' = Append(log, LogEntry("error", <<>>, <<>>))
    /\ UNCHANGED <<prNumbers, testConfigs, i, changedFiles, exeCommands, k, evVars>>

\* One iteration of for (const key in commands).
CheckLabel ==
    /\ pc = "labels"
    /\ k <= Len(testConfigs.commands)
    /\ LET key == testConfigs.commands[k].key
           command == testConfigs.commands[k].command
           matcherConfig == testConfigs.matchers[key]
       IN  IF checkPatternThrows(matcherConfig)
           THEN /\ Catch("TypeError")
                /\ log' = Append(log, LogEntry("error", changedFiles, <<>>))
                /\ UNCHANGED <<exeCommands, k, i>>
           ELSE /\ exeCommands' = IF checkPattern(changedFiles, matcherConfig)
                                  THEN SetAdd(exeCommands, command)
                                  ELSE exeCommands
                /\ k' = k + 1
                /\ UNCHANGED <<pc, i, failed, errors, log>>
    /\ UNCHANGED <<prNumbers, testConfigs, changedFiles, evVars>>

\* for (const command of exeCommands) core.warning(...), then the next
\* pull request.
Report ==
    /\ pc = "labels"
    /\ k > Len(testConfigs.commands)
    /\ log' = Append(log, LogEntry("evaluated", changedFiles, exeCommands))
    /\ i' = i + 1
    /\ pc' = "pulls_get"
    /\ UNCHANGED <<prNumbers, testConfigs, changedFiles, exeCommands, k, failed,
                   errors, evVars>>

\* The loop over prNumbers is exhausted.
Return ==
    /\ pc = "pulls_get"
    /\ i > Len(prNumbers)
    /\ pc' = "done"
    /\ UNCHANGED <<prNumbers, testConfigs, i, changedFiles, exeCommands, k, failed,
                   errors, log, evVars>>

Next ==
    \/ Start
    \/ GetTestConfig
    \/ GetTestConfigThrows
    \/ PullsGet
    \/ PullsGetThrows
    \/ GetChangedFiles
    \/ GetChangedFilesThrows
    \/ CheckLabel
    \/ Report
    \/ Return

Spec == Init /\ [][Next]_vars

(* ----------------- checkPattern called on its own --------------------- *)
InitEval ==
    /\ prNumbers = <<>>
    /\ testConfigs = NoConfig
    /\ pc = "done"
    /\ i = 1
    /\ changedFiles = <<>>
    /\ exeCommands = <<>>
    /\ k = 1
    /\ failed = FALSE
    /\ errors = <<>>
    /\ log = <<>>
    /\ evFiles \in FileLists
    /\ evConfigs \in ConfigLists
    /\ evMatch = <<>>
    /\ evResult = FALSE
    /\ evPc = "call"

Evaluate ==
    /\ evPc = "call"
    /\ evMatch' = [n \in 1..Len(evConfigs.v) |-> checkMatch(evFiles, evConfigs.v[n])]
    /\ evResult' = checkPattern(evFiles, evConfigs)
    /\ evPc' = "returned"
    /\ UNCHANGED <<evFiles, evConfigs, runVars>>

NextEval == Evaluate

SpecEval == InitEval /\ [][NextEval]_vars

(* ===================== properties of checkMatch ======================= *)
Returned == evPc = "returned"
Single == Returned /\ Len(evConfigs.v) = 1
TheConfig == evConfigs.v[1]
OnlyAll == Single /\ TheConfig.all # Undefined /\ TheConfig.any = Undefined
OnlyAny == Single /\ TheConfig.any # Undefined /\ TheConfig.all = Undefined
BothClauses == Single /\ TheConfig.all # Undefined /\ TheConfig.any # Undefined

FileMatches(m, pattern) == match(Minimatch(pattern), evFiles[m])
FileIndex == 1..Len(evFiles)
AllIndex == 1..Len(TheConfig.all.v)
AnyIndex == 1..Len(TheConfig.any.v)

\* C1 as stated, on the non-empty changed-file lists: with only `all`
\* present, checkMatch is true iff every changed file matches every pattern
\* of `all`.
C1_AllEveryFileEveryPattern ==
    (OnlyAll /\ Len(evFiles) > 0) =>
        (evMatch[1] <=> \A m \in FileIndex : \A n \in AllIndex :
                            FileMatches(m, TheConfig.all.v[n]))

\* C1 amended: with `all` present and `any` absent, checkMatch is true iff
\* every pattern of `all` is matched by at least one changed file; a file
\* that fails the pattern does not make the condition false.
C1_AllEveryPatternSomeFile ==
    OnlyAll =>
        (evMatch[1] <=> \A n \in AllIndex : \E m \in FileIndex :
                            FileMatches(m, TheConfig.all.v[n]))

\* all = [p], one changed file matches p, another fails it, and the
\* condition passes.
C1_Witness ==
    /\ OnlyAll
    /\ Len(TheConfig.all.v) = 1
    /\ \E m \in FileIndex : FileMatches(m, TheConfig.all.v[1])
    /\ \E m \in FileIndex : ~FileMatches(m, TheConfig.all.v[1])
    /\ evMatch[1]

\* C2 as stated, on the non-empty pattern lists: with only `any` present,
\* checkMatch is true iff one changed file matches every pattern of `any`.
C2_AnyOneFileEveryPattern ==
    (OnlyAny /\ Len(TheConfig.any.v) > 0) =>
        (evMatch[1] <=> \E m \in FileIndex : \A n \in AnyIndex :
                            FileMatches(m, TheConfig.any.v[n]))

\* C2 amended: with `any` present and `all` absent, checkMatch is true iff
\* at least one pattern of `any` is matched by at least one changed file.
C2_AnySomePatternSomeFile ==
    OnlyAny =>
        (evMatch[1] <=> \E n \in AnyIndex : \E m \in FileIndex :
                            FileMatches(m, TheConfig.any.v[n]))

\* Two patterns, each matched by a changed file, no file matching both,
\* and the condition passes.
C2_Witness ==
    /\ OnlyAny
    /\ Len(TheConfig.any.v) = 2
    /\ \A n \in AnyIndex : \E m \in FileIndex : FileMatches(m, TheConfig.any.v[n])
    /\ ~\E m \in FileIndex : \A n \in AnyIndex : FileMatches(m, TheConfig.any.v[n])
    /\ evMatch[1]

\* The result of each clause taken on its own.
AllClause == checkMatch(evFiles, MatchConfig(TheConfig.all, Undefined))
AnyClause == checkMatch(evFiles, MatchConfig(Undefined, TheConfig.any))

\* C3: with both `all` and `any` present, checkMatch is the conjunction of
\* the two clause results; a failing `any` clause fails the condition.
C3_BothClausesConjoined ==
    BothClauses => (evMatch[1] <=> (AllClause /\ AnyClause))

\* C8: with only any = [p], checkMatch is true iff at least one changed
\* file matches p, and false on an empty changed-file list.
C8_SinglePatternAny ==
    (OnlyAny /\ Len(TheConfig.any.v) = 1) =>
        /\ evMatch[1] <=> \E m \in FileIndex : FileMatches(m, TheConfig.any.v[1])
        /\ Len(evFiles) = 0 => ~evMatch[1]

\* any = [p], one changed file fails p, another matches it, and the
\* condition passes.
C8_Witness ==
    /\ OnlyAny
    /\ Len(TheConfig.any.v) = 1
    /\ Len(evFiles) = 2
    /\ ~FileMatches(1, TheConfig.any.v[1])
    /\ FileMatches(2, TheConfig.any.v[1])
    /\ evMatch[1]

(* ==================== properties of checkPattern ====================== *)
EmptyConfig == MatchConfig(Undefined, Undefined)

\* C7: checkPattern is true iff at least one condition of the list passes
\* checkMatch; an empty list never matches, and a list that contains {}
\* matches whatever the changed files are.
C7_SomeConditionPasses ==
    Returned =>
        /\ evResult <=> \E n \in 1..Len(evConfigs.v) : evMatch[n]
        /\ Len(evConfigs.v) = 0 => ~evResult
        /\ (\E n \in 1..Len(evConfigs.v) : evConfigs.v[n] = EmptyConfig) => evResult

\* A list whose first condition fails and whose second is {}: it matches.
C7_Witness ==
    /\ Returned
    /\ Len(evConfigs.v) = 2
    /\ ~evMatch[1]
    /\ evConfigs.v[2] = EmptyConfig
    /\ evResult

(* ========================= properties of run ========================== *)
LogIndex == 1..Len(log)
CommandIndex == 1..Len(testConfigs.commands)
MatcherOf(j) == testConfigs.matchers[testConfigs.commands[j].key]

\* The label loop was entered for the pull request of this log entry.
Evaluated(entry) == entry.files # <<>>

\* A matcher entry that is an array of {all, any} objects.
WellFormedEntry(value) ==
    value.t = "array" /\ \A n \in 1..Len(value.v) : value.v[n].t = "object"
\* A matcher entry that is a plain string, or an array holding plain strings.
WrongShape(value) ==
    \/ value.t = "string"
    \/ value.t = "array" /\ \E n \in 1..Len(value.v) : value.v[n].t = "string"

C5_WrongShapeRejected ==
    \A n \in LogIndex :
        (Evaluated(log[n]) /\ \E j \in CommandIndex : WrongShape(MatcherOf(j))) =>
            /\ log[n].outcome = "error"
            /\ log[n].reported = <<>>

\* The commands of the labels whose matcher passes checkPattern on files.
Triggered(files) ==
    {testConfigs.commands[j].command :
        j \in {h \in CommandIndex : checkPattern(files, MatcherOf(h))}}

\* C6: for a pull request with changed files and a well-formed rule set,
\* the reported commands are exactly the commands of the labels that pass
\* checkPattern, each once, whatever the earlier pull requests triggered.
C6_TriggeredSetExact ==
    \A n \in LogIndex :
        (/\ log[n].outcome = "evaluated"
         /\ \A j \in CommandIndex : WellFormedEntry(MatcherOf(j))) =>
            /\ Range(log[n].reported) = Triggered(log[n].files)
            /\ Cardinality(Range(log[n].reported)) = Len(log[n].reported)

\* Two labels with the same command both match: it is reported once, after
\* an earlier pull request that triggered nothing.
C6_Witness ==
    /\ Len(log) = 2
    /\ log[1].outcome = "evaluated"
    /\ log[1].reported = <<>>
    /\ log[2].outcome = "evaluated"
    /\ Len(testConfigs.commands) = 2
    /\ \A j \in CommandIndex :
          WellFormedEntry(MatcherOf(j)) /\ checkPattern(log[2].files, MatcherOf(j))
    /\ testConfigs.commands[1].command = testConfigs.commands[2].command
    /\ log[2].reported = <<testConfigs.commands[1].command>>

\* C9, the results: two evaluations of the same changed files under the
\* loaded rule set report the same commands.
SameFilesSameCommands ==
    \A m \in LogIndex : \A n \in LogIndex :
        (/\ log[m].outcome = "evaluated"
         /\ log[n].outcome = "evaluated"
         /\ log[m].files = log[n].files) => log[m].reported = log[n].reported

\* C9, the inputs: the evaluation of a pull request changes neither the
\* changed-file list nor the rule set.
InputsKept ==
    pc = "labels" => (changedFiles' = changedFiles /\ testConfigs' = testConfigs)

\* C9: evaluating the same changed files and rule set twice yields the same
\* triggered commands, and the evaluation leaves both inputs unchanged.
C9_Idempotent == []SameFilesSameCommands /\ [][InputsKept]_vars

\* The same changed files evaluated for the first and the third pull
\* request, with something else triggered in between.
C9_Witness ==
    /\ Len(log) = 3
    /\ \A n \in LogIndex : log[n].outcome = "evaluated"
    /\ log[1].files = log[3].files
    /\ log[1].reported = log[3].reported
    /\ log[2].reported # <<>>
    /\ log[2].reported # log[1].reported

\* C10: a pull request that cannot be fetched or has no changed files is
\* skipped: nothing is reported for it, it does not fail the run, and the
\* pull requests after it are still processed; only a thrown error ends the
\* run before the list is exhausted.
C10_SkipContinues ==
    /\ \A n \in LogIndex :
          /\ log[n].pr = prNumbers[n]
          /\ log[n].outcome \in {"not_found", "no_changes"} => log[n].reported = <<>>
          /\ log[n].outcome = "error" => (n = Len(log) /\ failed)
    /\ failed => (errors # <<>> /\ (log = <<>> \/ log[Len(log)].outcome = "error"))
    /\ (pc = "done" /\ ~failed) => Len(log) = Len(prNumbers)

\* Two skipped pull requests, one of each kind, then one that is evaluated
\* and triggers a command; the run ends without failure.
C10_Witness ==
    /\ pc = "done"
    /\ ~failed
    /\ Len(log) = 3
    /\ log[1].outcome = "not_found"
    /\ log[2].outcome = "no_changes"
    /\ log[3].outcome = "evaluated"
    /\ log[3].reported # <<>>

====
